---- MODULE Spec2Model ----
(***************************************************************************)
(* Model of the on-track entry parser, serializer and entry store          *)
(* (src/src/App.tsx).  Strings are sequences of one-character strings, so  *)
(* that the regular expression of parseTimeEntry, trim, split and the      *)
(* template literals of the serializers are computed character by          *)
(* character.                                                              *)
(***************************************************************************)
EXTENDS Integers, Sequences, FiniteSets, TLC

(***************************************************************************)
(* JavaScript values                                                       *)
(***************************************************************************)

\* `undefined` of an optional string (startTime?, endTime?, rawContent?, an
\* unmatched capture group): a sequence whose only element is no character.
Undefined == <<"undefined">>

\* `null` as returned by parseTimeEntry and held by currentEntry.
Null == [isNull |-> TRUE]

\* `null` of a string-valued slot (selectedDate, the id of a missing `over`).
NullString == <<"null">>

\* ''
Empty == <<>>

\* Truthiness of an optional string: undefined and '' are falsy.
Truthy(s) == s # Undefined /\ s # Empty

\* a || b on optional strings
OrElse(a, b) == IF Truthy(a) THEN a ELSE b

\* `${s}` of an optional string: undefined is rendered as the word.
TemplateString(s) ==
  IF s = Undefined THEN <<"u", "n", "d", "e", "f", "i", "n", "e", "d">> ELSE s

\* Characters matched by \s and stripped by trim(); the line feed is the
\* separator of split('\n').
WhiteSpace == {" ", "\n"}

\* Characters matched by \d.
Digits == {"0", "1", "2", "3", "4", "5", "6", "7", "8", "9"}

\* String.prototype.startsWith(p, i - 1) with i counted from 1.
startsWithAt(s, i, p) ==
  /\ i >= 1
  /\ i + Len(p) - 1 <= Len(s)
  /\ \A k \in 1..Len(p) : s[i + k - 1] = p[k]

startsWith(s, p) == startsWithAt(s, 1, p)

\* The substring that keeps the character before position n.
substringFromBefore(s, n) == IF n > Len(s) THEN Empty ELSE SubSeq(s, n, Len(s))

\* String.prototype.substring(n) with n counted from 0.
substring(s, n) == IF n >= Len(s) THEN Empty ELSE SubSeq(s, n + 1, Len(s))

\* String.prototype.trim()
RECURSIVE trimStart(_)
trimStart(s) ==
  IF s # Empty /\ Head(s) \in WhiteSpace THEN trimStart(Tail(s)) ELSE s

RECURSIVE trimEnd(_)
trimEnd(s) ==
  IF s # Empty /\ s[Len(s)] \in WhiteSpace
  THEN trimEnd(SubSeq(s, 1, Len(s) - 1)) ELSE s

trim(s) == trimEnd(trimStart(s))

\* String.prototype.split('\n'): the pieces between line feeds, empty
\* pieces included.
RECURSIVE splitFrom(_, _, _)
splitFrom(s, i, cur) ==
  IF i > Len(s) THEN <<cur>>
  ELSE IF s[i] = "\n" THEN <<cur>> \o splitFrom(s, i + 1, Empty)
  ELSE splitFrom(s, i + 1, Append(cur, s[i]))

split(s) == splitFrom(s, 1, Empty)

\* Array.prototype.join(sep)
RECURSIVE join(_, _)
join(parts, sep) ==
  IF parts = <<>> THEN Empty
  ELSE IF Len(parts) = 1 THEN parts[1]
  ELSE parts[1] \o sep \o join(Tail(parts), sep)

\* Concatenation of a sequence of strings (repeated +=).
RECURSIVE concat(_)
concat(parts) == IF parts = <<>> THEN Empty ELSE Head(parts) \o concat(Tail(parts))

\* Index of the first occurrence of p in s at or after i, 0 when none.
RECURSIVE indexOfFrom(_, _, _)
indexOfFrom(s, p, i) ==
  IF i + Len(p) - 1 > Len(s) THEN 0
  ELSE IF startsWithAt(s, i, p) THEN i
  ELSE indexOfFrom(s, p, i + 1)

(***************************************************************************)
(* parseTimeEntry: the regular expression of App.tsx line 98, in order:    *)
(* the checkbox prefix with its captured marker, the optional group of two *)
(* captured times, the optional heading marker with trailing white space,  *)
(* and the alternation of a captured label and url with a captured rest;   *)
(* matched as String.prototype.match does: at the leftmost position where  *)
(* it can match, greedy groups taken when they match, lazy groups as short *)
(* as possible, the second alternative only when the first fails.          *)
(***************************************************************************)

\* Two digits, colon, two digits at position i
TimeAt(s, i) ==
  /\ i + 4 <= Len(s)
  /\ s[i] \in Digits /\ s[i + 1] \in Digits
  /\ s[i + 2] = ":"
  /\ s[i + 3] \in Digits /\ s[i + 4] \in Digits

\* The checkbox prefix at position i: dash, space, bracketed marker, space
CheckboxAt(s, i) ==
  /\ i + 5 <= Len(s)
  /\ s[i] = "-" /\ s[i + 1] = " " /\ s[i + 2] = "["
  /\ s[i + 3] \in {" ", "x"}
  /\ s[i + 4] = "]" /\ s[i + 5] = " "

\* The optional group of two times at position i: whether the group
\* takes part in the match (14 characters) or is skipped.
TimeRangeAt(s, i) ==
  /\ TimeAt(s, i)
  /\ startsWithAt(s, i + 5, <<" ", "-", " ">>)
  /\ TimeAt(s, i + 8)
  /\ startsWithAt(s, i + 13, <<" ">>)

\* The white space run at position i: the position after the longest run of white space.
RECURSIVE SkipSpace(_, _)
SkipSpace(s, i) ==
  IF i <= Len(s) /\ s[i] \in WhiteSpace THEN SkipSpace(s, i + 1) ELSE i

\* The optional heading group at position i: the position after the group.
HeadingEnd(s, i) ==
  IF startsWithAt(s, i, <<"#", "#", "#", "#">>) THEN SkipSpace(s, i + 4) ELSE i

\* The label and url alternative at position i: the lazy label ends at the first "](" and
\* the url at the first ")" after it.
LinkClose(s, i) == indexOfFrom(s, <<"]", "(">>, i + 1)
LinkEnd(s, i) ==
  IF LinkClose(s, i) = 0 THEN 0 ELSE indexOfFrom(s, <<")">>, LinkClose(s, i) + 2)
LinkAt(s, i) == i <= Len(s) /\ s[i] = "[" /\ LinkEnd(s, i) # 0

\* The capture groups of the match that starts at position p.
GroupsAt(s, p) ==
  LET t == p + 6
      timed == TimeRangeAt(s, t)
      h == IF timed THEN t + 14 ELSE t
      r == HeadingEnd(s, h)
      linked == LinkAt(s, r)
  IN [g1 |-> <<s[p + 3]>>,
      g2 |-> IF timed THEN SubSeq(s, t, t + 4) ELSE Undefined,
      g3 |-> IF timed THEN SubSeq(s, t + 8, t + 12) ELSE Undefined,
      g4 |-> IF linked THEN SubSeq(s, r + 1, LinkClose(s, r) - 1) ELSE Undefined,
      g5 |-> IF linked THEN SubSeq(s, LinkClose(s, r) + 2, LinkEnd(s, r) - 1)
             ELSE Undefined,
      g6 |-> IF linked THEN Undefined ELSE SubSeq(s, r, Len(s))]

\* Leftmost position at or after i where the expression matches, 0 when it
\* matches nowhere (the last alternative matches any rest, so the
\* expression matches wherever the checkbox prefix does).
RECURSIVE MatchStart(_, _)
MatchStart(s, i) ==
  IF i > Len(s) THEN 0
  ELSE IF CheckboxAt(s, i) THEN i
  ELSE MatchStart(s, i + 1)

\* line.match(regex): Null or the capture groups.
regexMatch(line) ==
  IF MatchStart(line, 1) = 0 THEN Null ELSE GroupsAt(line, MatchStart(line, 1))

\* parseTimeEntry with an expression that does not match a line whose
\* checkbox is followed by a time that starts no time range.
parseTimeEntrySkipLoneTime(line, date) ==
  LET match == regexMatch(line)
      t == MatchStart(line, 1) + 6
  IN
  IF match # Null /\ ~(TimeAt(line, t) /\ ~TimeRangeAt(line, t))
  THEN [completed |-> match.g1 = <<"x">>,
        startTime |-> OrElse(match.g2, Undefined),
        endTime |-> OrElse(match.g3, Undefined),
        title |-> OrElse(match.g4, OrElse(match.g6, Empty)),
        link |-> OrElse(match.g5, Empty),
        subTasks |-> <<>>,
        date |-> date,
        isEditing |-> FALSE,
        rawContent |-> line]
  ELSE Null

parseTimeEntry(line, date) ==
  LET match == regexMatch(line) IN
  IF match # Null
  THEN [completed |-> match.g1 = <<"x">>,
        startTime |-> OrElse(match.g2, Undefined),
        endTime |-> OrElse(match.g3, Undefined),
        title |-> OrElse(match.g4, OrElse(match.g6, Empty)),
        link |-> OrElse(match.g5, Empty),
        subTasks |-> <<>>,
        date |-> date,
        isEditing |-> FALSE,
        rawContent |-> line]
  ELSE Null

(***************************************************************************)
(* handleFileSelect: the line loop over one file                           *)
(***************************************************************************)

\* The iteration that keeps the open entry open when an entry line yields
\* no entry.
LineStepKeepOpen(st, line, date) ==
  IF startsWith(trim(line), <<"-", " ", "[">>)
  THEN IF parseTimeEntry(line, date) = Null THEN st
       ELSE [parsedEntries |-> IF st.currentEntry # Null
                               THEN Append(st.parsedEntries, st.currentEntry)
                               ELSE st.parsedEntries,
             currentEntry |-> parseTimeEntry(line, date)]
  ELSE IF st.currentEntry # Null /\ startsWith(trim(line), <<"-">>)
  THEN [st EXCEPT !.currentEntry.subTasks = Append(@, substring(trim(line), 2))]
  ELSE st

\* One iteration of lines.forEach: st holds parsedEntries and currentEntry.
LineStep(st, line, date) ==
  IF startsWith(trim(line), <<"-", " ", "[">>)
  THEN [parsedEntries |-> IF st.currentEntry # Null
                          THEN Append(st.parsedEntries, st.currentEntry)
                          ELSE st.parsedEntries,
        currentEntry |-> parseTimeEntry(line, date)]
  ELSE IF st.currentEntry # Null /\ startsWith(trim(line), <<"-">>)
  THEN [st EXCEPT !.currentEntry.subTasks = Append(@, substring(trim(line), 2))]
  ELSE st

RECURSIVE LinesLoop(_, _, _, _)
LinesLoop(st, lines, i, date) ==
  IF i > Len(lines) THEN st
  ELSE LinesLoop(LineStep(st, lines[i], date), lines, i + 1, date)

\* The entries one file contributes: the loop, then the push of the entry
\* that is still open.
ParseFile(content, date) ==
  LET st == LinesLoop([parsedEntries |-> <<>>, currentEntry |-> Null],
                      split(content), 1, date)
  IN IF st.currentEntry # Null
     THEN Append(st.parsedEntries, st.currentEntry)
     ELSE st.parsedEntries

(***************************************************************************)
(* Serializers                                                             *)
(***************************************************************************)

\* entry.subTasks.forEach(task => entryContent += `  - ${task}\n`)
RECURSIVE SubTaskLines(_)
SubTaskLines(tasks) ==
  IF tasks = <<>> THEN Empty
  ELSE <<" ", " ", "-", " ">> \o Head(tasks) \o <<"\n">> \o SubTaskLines(Tail(tasks))

checkbox(entry) == IF entry.completed THEN <<"[", "x", "]">> ELSE <<"[", " ", "]">>

titlePart(entry) ==
  IF Truthy(entry.link)
  THEN <<"[">> \o entry.title \o <<"]", "(">> \o entry.link \o <<")">>
  ELSE entry.title

\* handleSaveChanges: the time segment of one entry line.
timePart(entry) ==
  IF Truthy(entry.startTime) /\ Truthy(entry.endTime)
  THEN entry.startTime \o <<" ", "-", " ">> \o entry.endTime \o <<" ">>
  ELSE Empty

\* handleSaveChanges: the text of one entry (the map callback).
SaveEntryContent(entry) ==
  <<"-", " ">> \o checkbox(entry) \o <<" ">> \o timePart(entry) \o titlePart(entry)
    \o <<"\n">> \o SubTaskLines(entry.subTasks)

\* getMarkdownForDate: the text of one entry (the map callback).
MarkdownEntryContent(entry) ==
  <<"-", " ">> \o checkbox(entry) \o <<" ">>
    \o TemplateString(entry.startTime) \o <<" ", "-", " ">>
    \o TemplateString(entry.endTime) \o <<" ">> \o titlePart(entry)
    \o <<"\n">> \o SubTaskLines(entry.subTasks)

\* Array.prototype.filter(entry => entry.date === date)
filterByDate(items, date) == SelectSeq(items, LAMBDA e : e.date = date)

\* handleSaveChanges: the content of the file of one date group.
SaveContent(dateEntries) ==
  join([i \in 1..Len(dateEntries) |-> SaveEntryContent(dateEntries[i])], <<"\n">>)

getMarkdownForDate(items, date) ==
  LET dateEntries == filterByDate(items, date) IN
  join([i \in 1..Len(dateEntries) |-> MarkdownEntryContent(dateEntries[i])], <<"\n">>)

(***************************************************************************)
(* Entry store: grouping, edit, reorder, create, load                      *)
(***************************************************************************)

\* The iteration with the entry put in front of its group.
GroupStepFront(groups, entry) ==
  LET acc == IF entry.date \in DOMAIN groups THEN groups
             ELSE groups @@ (entry.date :> <<>>)
  IN [acc EXCEPT ![entry.date] = <<entry>> \o @]

\* The reduce of groupedEntries, entriesByDate (handleSaveChanges, WeekView):
\* one iteration, then the fold from entry i on.
GroupStep(groups, entry) ==
  LET acc == IF entry.date \in DOMAIN groups THEN groups
             ELSE groups @@ (entry.date :> <<>>)
  IN [acc EXCEPT ![entry.date] = Append(@, entry)]

RECURSIVE GroupFrom(_, _, _)
GroupFrom(groups, items, i) ==
  IF i > Len(items) THEN groups
  ELSE GroupFrom(GroupStep(groups, items[i]), items, i + 1)

groupedEntries(items) == GroupFrom(<<>>, items, 1)

\* handleEntryEdit: the updater passed to setEntries; index counts from 0.
handleEntryEdit(prev, index, field, value) ==
  [prev EXCEPT ![index + 1] = [@ EXCEPT ![field] = value]]

\* The id given to useSortable and to SortableContext: `${date}|${startTime}`
sortableId(entry) == entry.date \o <<"|">> \o TemplateString(entry.startTime)

\* const [activeDate] = activeId.split('|')
idDate(id) ==
  IF indexOfFrom(id, <<"|">>, 1) = 0 THEN id
  ELSE SubSeq(id, 1, indexOfFrom(id, <<"|">>, 1) - 1)

\* Array.prototype.findIndex over the ids, counted from 0, -1 when none.
RECURSIVE findIndexFrom(_, _, _)
findIndexFrom(items, id, i) ==
  IF i > Len(items) THEN -1
  ELSE IF sortableId(items[i]) = id THEN i - 1
  ELSE findIndexFrom(items, id, i + 1)

findIndex(items, id) == findIndexFrom(items, id, 1)

\* arrayMove of @dnd-kit/sortable: splice the element out at from, splice it
\* in at to (both counted from 0).
arrayMove(array, from, to) ==
  LET removed == SubSeq(array, 1, from) \o SubSeq(array, from + 2, Len(array))
  IN SubSeq(removed, 1, to) \o <<array[from + 1]>> \o SubSeq(removed, to + 1, Len(removed))

\* handleDragEnd: whether the request passes the guards of lines 481 and 487
\* (over is Null when the entry is dropped outside every sortable).
\* The guards without the comparison of the two dates.
dragAnyDate(activeId, overId) ==
  /\ overId # NullString
  /\ activeId # overId

dragSameDate(activeId, overId) ==
  /\ overId # NullString
  /\ activeId # overId
  /\ idDate(activeId) = idDate(overId)

\* handleDragEnd: whether the updater moves an entry (line 496).
dragAccepted(items, activeId, overId) ==
  /\ dragSameDate(activeId, overId)
  /\ findIndex(items, activeId) # -1
  /\ findIndex(items, overId) # -1

\* handleDragEnd: the entries after the request.
handleDragEnd(items, activeId, overId) ==
  IF dragAccepted(items, activeId, overId)
  THEN arrayMove(items, findIndex(items, activeId), findIndex(items, overId))
  ELSE items

\* The updater with the new entry put in front of the collection.
handleCreateEntryFront(prev, newEntry, selDate, today) ==
  <<[completed |-> newEntry.completed,
     startTime |-> newEntry.startTime,
     endTime |-> newEntry.endTime,
     title |-> newEntry.title,
     link |-> newEntry.link,
     subTasks |-> <<>>,
     date |-> IF selDate # NullString /\ selDate # Empty THEN selDate
              ELSE today,
     isEditing |-> FALSE,
     rawContent |-> Undefined]>> \o prev

\* handleCreateEntry: the updater passed to setEntries.
handleCreateEntry(prev, newEntry, selDate, today) ==
  Append(prev, [completed |-> newEntry.completed,
                startTime |-> newEntry.startTime,
                endTime |-> newEntry.endTime,
                title |-> newEntry.title,
                link |-> newEntry.link,
                subTasks |-> <<>>,
                date |-> IF selDate # NullString /\ selDate # Empty THEN selDate
                         ELSE today,
                isEditing |-> FALSE,
                rawContent |-> Undefined])

(***************************************************************************)
(* handleFileSelect: the file set                                          *)
(***************************************************************************)

\* Order of the characters of a date (String.prototype.localeCompare on
\* strings of digits).
DigitRank(c) == CHOOSE n \in 0..9 : <<"0", "1", "2", "3", "4", "5", "6", "7", "8", "9">>[n + 1] = c

\* a.localeCompare(b) < 0 for two dates
RECURSIVE dateBefore(_, _)
dateBefore(a, b) ==
  IF a = Empty THEN b # Empty
  ELSE IF b = Empty THEN FALSE
  ELSE IF Head(a) = Head(b) THEN dateBefore(Tail(a), Tail(b))
  ELSE DigitRank(Head(a)) < DigitRank(Head(b))

\* markdownFiles.sort((a, b) => dateB.localeCompare(dateA)): the stable sort
\* by descending date, as the insertion of each file after the files that do
\* not sort after it.
RECURSIVE insertFile(_, _)
insertFile(sorted, file) ==
  IF sorted = <<>> THEN <<file>>
  ELSE IF dateBefore(Head(sorted).date, file.date)
  THEN <<file>> \o sorted
  ELSE <<Head(sorted)>> \o insertFile(Tail(sorted), file)

RECURSIVE sortFiles(_, _)
sortFiles(sorted, files) ==
  IF files = <<>> THEN sorted
  ELSE sortFiles(insertFile(sorted, Head(files)), Tail(files))

markdownFiles(files) == sortFiles(<<>>, SelectSeq(files, LAMBDA f : f.isDayFile))

\* The for loop of lines 132-156 from file i on: rejected when a
\* file.text() rejects, which ends the handler before setEntries.
RECURSIVE readFiles(_, _, _)
readFiles(files, i, allEntries) ==
  IF i > Len(files) THEN [rejected |-> FALSE, allEntries |-> allEntries]
  ELSE IF ~files[i].readable THEN [rejected |-> TRUE, allEntries |-> allEntries]
  ELSE readFiles(files, i + 1, allEntries \o ParseFile(files[i].content, files[i].date))

handleFileSelect(files) == readFiles(markdownFiles(files), 1, <<>>)

(***************************************************************************)
(* Inputs                                                                  *)
(***************************************************************************)

\* Most operations one run performs.
MaxSteps == 3

\* Most folder selections one run performs.
MaxLoads == 1

\* Most files one folder selection holds.
MaxFiles == 2

\* Most entries the store holds after an entry is created (the two loaded
\* days hold six).
MaxEntries == 7

\* The dates of the day files (the YYYY-MM-DD of a file name, shortened to
\* two digits).
Date1 == <<"0", "1">>
Date2 == <<"0", "2">>
Dates == {Date1, Date2}

Time09 == <<"0", "9", ":", "0", "0">>
Time10 == <<"1", "0", ":", "0", "0">>

\* A day with a timed entry with a sub-task and two untimed entries.
TextMixed ==
  <<"-", " ", "[", " ", "]", " ", "0", "9", ":", "0", "0", " ", "-", " ",
  "1", "0", ":", "0", "0", " ", "a", "\n", " ", " ", "-", " ", "s", "\n",
  "\n", "-", " ", "[", "x", "]", " ", "b", "\n", "-", " ", "[", " ", "]",
  " ", "c", "\n">>

\* A day with three entries of three start times, the first a link.
TextTimed ==
  <<"-", " ", "[", "x", "]", " ", "0", "9", ":", "0", "0", " ", "-", " ",
  "1", "0", ":", "0", "0", " ", "[", "a", "]", "(", "u", ")", "\n", "-", " ",
  "[", " ", "]", " ", "1", "0", ":", "0", "0", " ", "-", " ", "1", "1", ":",
  "0", "0", " ", "b", "\n", "-", " ", "[", " ", "]", " ", "1", "1", ":", "0",
  "0", " ", "-", " ", "1", "2", ":", "0", "0", " ", "c", "\n">>

FileContents == {TextMixed, TextTimed}

\* A selected file: the date its name starts with, whether the name has the
\* form of a day file (the pattern of line 121), whether file.text()
\* resolves, and the text it resolves to.
Files ==
  [date : Dates, isDayFile : BOOLEAN, readable : BOOLEAN, content : FileContents]

RECURSIVE SeqsUpTo(_, _)
SeqsUpTo(S, n) ==
  IF n = 0 THEN {<<>>}
  ELSE LET shorter == SeqsUpTo(S, n - 1)
       IN shorter \cup {Append(q, x) : q \in shorter, x \in S}

FileSets == SeqsUpTo(Files, MaxFiles)

\* Values typed into the inputs of an entry in edit mode and of the create
\* form.
EditTimes == {Empty, Time10}
EditTitles == {<<"e">>}
EditLinks == {Empty, <<"v">>}
EditSubTasks == {<<Empty>>, <<<<"s">>, <<"t">>>>}

Views == {"timeline", "week", "list"}

(***************************************************************************)
(* State                                                                   *)
(*                                                                         *)
(* The state of App that the parser, the serializers and the store         *)
(* operations read or write.  showCode, view, isDarkMode, layout,          *)
(* selectedEntryIndex and selectedFiles only steer the rendering and are   *)
(* left out; the view a request comes from is an argument of the request.  *)
(***************************************************************************)

VARIABLES
  entries,            \* useState<TimeEntry[]>
  hasUnsavedChanges,  \* useState(false)
  selectedDate,       \* useState<string | null>
  downloads,          \* the files of the last handleSaveChanges, by date
  loads,              \* history: number of folder selections so far
  lastOp,             \* history: the last request and its arguments
  mutated,            \* history: an entry was edited, moved or created
                      \* since the last export
  steps,              \* history: number of requests so far
  pc,                 \* parser runs: "idle", "entry", "text" or "parsed"
  entryIn,            \* parser runs: the entry given to the serializer, or Null
  lineIn,             \* parser runs: the pieces of the line given to the parser,
                      \* or Null
  content,            \* parser runs: the text of the file
  parsed,             \* parser runs: the entries parsed from content
  exported            \* parser runs, history: the texts handleSaveChanges
                      \* has put together, in order

storeVars ==
  <<entries, hasUnsavedChanges, selectedDate, downloads, loads, lastOp, mutated, steps>>

textVars == <<pc, entryIn, lineIn, content, parsed, exported>>

vars == <<storeVars, textVars>>

\* The store after App is constructed.
InitStore ==
  /\ entries = <<>>
  /\ hasUnsavedChanges = FALSE
  /\ selectedDate = NullString
  /\ downloads = <<>>
  /\ loads = 0
  /\ lastOp = [kind |-> "init"]
  /\ mutated = FALSE
  /\ steps = 0

Init ==
  /\ InitStore
  /\ pc = "idle"
  /\ entryIn = Null
  /\ lineIn = Null
  /\ content = Empty
  /\ parsed = <<>>
  /\ exported = <<>>

\* The entry a view shows at index (from 0) of a date: the list view shows
\* the collection itself, the timeline and the week view show it by date.
Shown(items, view, date, index) ==
  IF view = "list" THEN items[index + 1]
  ELSE groupedEntries(items)[date][index + 1]

\* The places a view shows an entry at.
Places(items, view) ==
  IF view = "list"
  THEN {<<items[i].date, i - 1>> : i \in 1..Len(items)}
  ELSE UNION {{<<d, i - 1>> : i \in 1..Len(groupedEntries(items)[d])} :
                d \in DOMAIN groupedEntries(items)}

\* The edits a view offers on the entry it shows (the onChange and onClick
\* handlers of SortableTimelineEntry, WeekView and ListView).
Edits(view, entry) ==
  {<<"completed", ~entry.completed>>}
    \cup (IF view = "timeline"
          THEN {<<"isEditing", ~entry.isEditing>>}
                 \cup (IF entry.isEditing
                       THEN {<<"startTime", t>> : t \in EditTimes}
                              \cup {<<"endTime", t>> : t \in EditTimes}
                              \cup {<<"title", t>> : t \in EditTitles}
                              \cup (IF Truthy(entry.link)
                                    THEN {<<"link", l>> : l \in EditLinks}
                                    ELSE {})
                              \cup {<<"subTasks", t>> : t \in EditSubTasks}
                       ELSE {})
          ELSE {})

(***************************************************************************)
(* Requests                                                                *)
(***************************************************************************)

\* onChange of the folder input: handleFileSelect.  A rejected file.text()
\* ends the handler before setEntries and setSelectedDate.
FileSelect(files) ==
  LET r == handleFileSelect(files) IN
  /\ steps < MaxSteps
  /\ loads < MaxLoads
  /\ loads' = loads + 1
  /\ entries' = IF r.rejected THEN entries ELSE r.allEntries
  /\ selectedDate' = IF ~r.rejected /\ Len(r.allEntries) > 0
                     THEN r.allEntries[1].date ELSE selectedDate
  /\ lastOp' = [kind |-> "load", files |-> files]
  /\ steps' = steps + 1
  /\ UNCHANGED <<hasUnsavedChanges, downloads, mutated, textVars>>

\* An edit of the entry a view shows at index of date: handleEntryEdit with
\* the index and the value the view passes.
EntryEdit(view, date, index, field, value) ==
  /\ steps < MaxSteps
  /\ entries' = handleEntryEdit(entries, index, field, value)
  /\ hasUnsavedChanges' = TRUE
  /\ mutated' = TRUE
  /\ lastOp' = [kind |-> "edit", view |-> view, date |-> date, index |-> index,
                field |-> field, value |-> value]
  /\ steps' = steps + 1
  /\ UNCHANGED <<selectedDate, downloads, loads, textVars>>

\* onClick of an entry in a view: handleEntryClick.
EntryClick(date) ==
  /\ steps < MaxSteps
  /\ selectedDate' = date
  /\ lastOp' = [kind |-> "click", date |-> date]
  /\ steps' = steps + 1
  /\ UNCHANGED <<entries, hasUnsavedChanges, downloads, mutated, loads, textVars>>

\* onDragEnd of the timeline: the entry shown at index from of one date is
\* dropped on the entry shown at index to of a date, or outside (overId
\* NullString).
DragEnd(activeId, overId, op) ==
  /\ steps < MaxSteps
  /\ entries' = handleDragEnd(entries, activeId, overId)
  /\ hasUnsavedChanges' = (hasUnsavedChanges \/ dragAccepted(entries, activeId, overId))
  /\ mutated' = (mutated \/ dragAccepted(entries, activeId, overId))
  /\ lastOp' = op
  /\ steps' = steps + 1
  /\ UNCHANGED <<selectedDate, downloads, loads, textVars>>

DragOnto(fromDate, from, toDate, to) ==
  DragEnd(sortableId(Shown(entries, "timeline", fromDate, from)),
          sortableId(Shown(entries, "timeline", toDate, to)),
          [kind |-> "drag", fromDate |-> fromDate, from |-> from,
           toDate |-> toDate, to |-> to])

DragOutside(fromDate, from) ==
  DragEnd(sortableId(Shown(entries, "timeline", fromDate, from)), NullString,
          [kind |-> "dragOut", fromDate |-> fromDate, from |-> from])

\* onClick of the create button of EditView: handleCreateEntry.  The view
\* button cycles through timeline, week and list only, so the request is
\* taken as the store operation it implements, open to its caller at any
\* time.
CreateEntry(newEntry, today) ==
  /\ steps < MaxSteps
  /\ Len(entries) < MaxEntries
  /\ entries' = handleCreateEntry(entries, newEntry, selectedDate, today)
  /\ mutated' = TRUE
  /\ lastOp' = [kind |-> "create", newEntry |-> newEntry, today |-> today]
  /\ steps' = steps + 1
  /\ UNCHANGED <<hasUnsavedChanges, selectedDate, downloads, loads, textVars>>

\* onClick of the save button, rendered while hasUnsavedChanges:
\* handleSaveChanges.
SaveChanges ==
  /\ steps < MaxSteps
  /\ hasUnsavedChanges
  /\ downloads' = [d \in DOMAIN groupedEntries(entries) |->
                     SaveContent(groupedEntries(entries)[d])]
  /\ hasUnsavedChanges' = FALSE
  /\ mutated' = FALSE
  /\ lastOp' = [kind |-> "save"]
  /\ steps' = steps + 1
  /\ UNCHANGED <<entries, selectedDate, loads, textVars>>

\* The entries of the create form (completed has no input and stays false).
NewEntries ==
  [completed : {FALSE}, startTime : {Undefined, Time10}, endTime : {Undefined, Time10},
   title : {<<"n">>}, link : {Empty}]

Next ==
  \/ \E files \in FileSets : FileSelect(files)
  \/ \E view \in Views : \E place \in Places(entries, view) :
       \E edit \in Edits(view, Shown(entries, view, place[1], place[2])) :
         EntryEdit(view, place[1], place[2], edit[1], edit[2])
  \/ \E place \in Places(entries, "list") : EntryClick(place[1])
  \/ \E a \in Places(entries, "timeline") : \E o \in Places(entries, "timeline") :
       DragOnto(a[1], a[2], o[1], o[2])
  \/ \E a \in Places(entries, "timeline") : DragOutside(a[1], a[2])
  \/ \E newEntry \in NewEntries : \E today \in Dates : CreateEntry(newEntry, today)
  \/ SaveChanges

Spec == Init /\ [][Next]_vars

(***************************************************************************)
(* Parser and serializer runs: a text is parsed, or an entry is serialized *)
(* (handleSaveChanges) and the text parsed (handleFileSelect).             *)
(***************************************************************************)

\* Most pieces the rest of a line is put together from.
MaxAtoms == 2

\* Most sub-tasks of an entry given to the serializer.
MaxSubTasks == 1

\* The date of the file a run parses.
ParseDate == Date1

RestAtoms ==
  {<<"a">>, <<" ">>, <<"[", "a", "]">>, <<"(", "b", ")">>, <<"[", "a", "]", "(", "b", ")">>,
   <<"[">>, <<")">>, <<"-", " ", "[", "x", "]", " ">>}

\* The texts after the checkbox, the times and the heading marker.
Rests == {concat(q) : q \in SeqsUpTo(RestAtoms, MaxAtoms)}

\* The pieces of a line: indentation, the marker between the brackets of the
\* checkbox, the time tokens, the heading marker and the rest.
Indents == {Empty, <<" ", " ">>}
Markers == {<<" ">>, <<"x">>, <<"y">>, Empty}
TimeRange == <<"0", "9", ":", "0", "0", " ", "-", " ", "1", "0", ":", "0", "0", " ">>
OneTime == <<"0", "9", ":", "0", "0", " ">>
TimeTokens == {Empty, TimeRange, OneTime}
HeadingMarker == <<"#", "#", "#", "#", " ">>
Headings == {Empty, HeadingMarker}

\* A line is given alone, or between an entry line and a sub-task line.
LinePieces ==
  [indent : Indents, marker : Markers, times : TimeTokens, heading : Headings,
   rest : Rests, between : BOOLEAN]

LineBefore == <<"-", " ", "[", " ", "]", " ", "p">>
LineAfter == <<" ", " ", "-", " ", "s">>

\* The text after the checkbox of a line.
AfterCheckbox(l) == l.times \o l.heading \o l.rest

LineText(l) ==
  l.indent \o <<"-", " ", "[">> \o l.marker \o <<"]", " ">> \o AfterCheckbox(l)

TextOf(l) ==
  IF l.between
  THEN LineBefore \o <<"\n">> \o LineText(l) \o <<"\n">> \o LineAfter \o <<"\n">>
  ELSE LineText(l)

\* The entries with well-formed fields given to the serializer.
SubTaskStrings == {<<"s">>, <<"t">>}

WellFormedEntries ==
  {[completed |-> c, startTime |-> t[1], endTime |-> t[2], title |-> h \o r,
    link |-> l, subTasks |-> st, date |-> ParseDate, isEditing |-> FALSE,
    rawContent |-> Undefined] :
     c \in BOOLEAN, t \in {<<Undefined, Undefined>>, <<Time09, Time10>>},
     h \in Headings, r \in Rests, l \in {Empty, <<"u">>},
     st \in SeqsUpTo(SubTaskStrings, MaxSubTasks)}

\* Most lines of a text put together from whole lines.
MaxLines == 4

\* Whole lines: two entry lines, an entry line with a marker that is no
\* checkbox, an entry line with the heading marker twice, two sub-task
\* lines (the second without the space after the dash), a blank line and a
\* line of commentary.
LineEntry == <<"-", " ", "[", " ", "]", " ", "a">>
LineEntryLink ==
  <<" ", " ", "-", " ", "[", "x", "]", " ">> \o TimeRange \o <<"[", "a", "]", "(", "b", ")">>
LineNoCheckbox == <<"-", " ", "[", "y", "]", " ", "a">>
LineTwoHeadings == <<"-", " ", "[", "x", "]", " ">> \o HeadingMarker \o HeadingMarker \o <<"a">>
LineSubTask == <<" ", " ", "-", " ", "s">>
LineSubTaskTight == <<"-", "t", "u">>
LineBlank == Empty
LineComment == <<"c">>

TextLines ==
  {LineEntry, LineEntryLink, LineNoCheckbox, LineTwoHeadings, LineSubTask,
   LineSubTaskTight, LineBlank, LineComment}

\* The texts of up to MaxLines whole lines.
Texts == {join(q, <<"\n">>) : q \in SeqsUpTo(TextLines, MaxLines)}

InitParse ==
  /\ InitStore
  /\ parsed = <<>>
  /\ exported = <<>>
  /\ \/ /\ pc = "text"
        /\ entryIn = Null
        /\ \E l \in LinePieces : lineIn = l /\ content = TextOf(l)
     \/ /\ pc = "text"
        /\ entryIn = Null
        /\ lineIn = Null
        /\ content \in Texts
     \/ /\ pc = "entry"
        /\ entryIn \in WellFormedEntries
        /\ lineIn = Null
        /\ content = Empty

\* handleSaveChanges on the one-entry store: the text of the downloaded file.
SerializeEntry ==
  /\ pc = "entry"
  /\ content' = SaveContent(<<entryIn>>)
  /\ exported' = Append(exported, SaveContent(<<entryIn>>))
  /\ pc' = "text"
  /\ UNCHANGED <<storeVars, entryIn, lineIn, parsed>>

\* handleFileSelect on the one file: the entries of the file.
ParseContent ==
  /\ pc = "text"
  /\ parsed' = ParseFile(content, ParseDate)
  /\ pc' = "parsed"
  /\ UNCHANGED <<storeVars, entryIn, lineIn, content, exported>>

NextParse == SerializeEntry \/ ParseContent

SpecParse == InitParse /\ [][NextParse]_vars

(***************************************************************************)
(* Export runs: a text is loaded (handleFileSelect) and exported           *)
(* (handleSaveChanges), and the exported text is loaded and exported       *)
(* again.                                                                  *)
(***************************************************************************)

\* handleSaveChanges on the entries parsed from the one file: the text of
\* the file of ParseDate.  No file is put together for a date without
\* entries.  A run exports twice.
ExportParsed ==
  /\ pc = "parsed"
  /\ Len(parsed) > 0
  /\ Len(exported) < 2
  /\ content' = SaveContent(groupedEntries(parsed)[ParseDate])
  /\ exported' = Append(exported, SaveContent(groupedEntries(parsed)[ParseDate]))
  /\ pc' = "text"
  /\ UNCHANGED <<storeVars, entryIn, lineIn, parsed>>

InitExport == InitParse /\ pc = "text"

NextExport == ParseContent \/ ExportParsed

SpecExport == InitExport /\ [][NextExport]_vars

(***************************************************************************)
(* Properties                                                              *)
(***************************************************************************)

SameFields(a, b) ==
  /\ a.completed = b.completed
  /\ a.startTime = b.startTime
  /\ a.endTime = b.endTime
  /\ a.title = b.title
  /\ a.link = b.link
  /\ a.subTasks = b.subTasks
  /\ a.date = b.date

\* C1: serializing the one-element list of an entry with well-formed fields
\* and parsing the text with the same date yields exactly one entry, equal
\* to the original in completed, startTime, endTime, title, link, subTasks
\* and date.
C1_RoundTrip ==
  (pc = "parsed" /\ entryIn # Null) =>
    (Len(parsed) = 1 /\ SameFields(parsed[1], entryIn))

\* Position in the collection (from 1) of the n-th entry (from 1) of a date.
PositionOf(items, date, n) ==
  CHOOSE i \in 1..Len(items) :
    /\ items[i].date = date
    /\ Cardinality({k \in 1..i : items[k].date = date}) = n

\* Position in the collection (from 1) of the entry a view shows at index of
\* date.
TargetOf(items, view, date, index) ==
  IF view = "list" THEN index + 1 ELSE PositionOf(items, date, index + 1)

\* C2: an edit issued from a view on the entry shown at an index of a date
\* gives that entry the new value of the field, leaves every other entry,
\* every date and every position as it was, and makes the store dirty.
C2_SetFieldTargetsShownEntry ==
  [][lastOp'.kind = "edit" =>
       /\ entries' = [entries EXCEPT
            ![TargetOf(entries, lastOp'.view, lastOp'.date, lastOp'.index)] =
               [@ EXCEPT ![lastOp'.field] = lastOp'.value]]
       /\ hasUnsavedChanges']_vars

\* C3: the store is dirty exactly when an entry was edited, moved or created
\* since the last export (or since the start).
C3_DirtyIffMutated == hasUnsavedChanges = mutated

\* C4: when a file of the selected set cannot be read, the store holds the
\* entries of every other day file of the set, as loading those alone gives.
C4_PartialBatch ==
  (lastOp.kind = "load"
     /\ \E i \in 1..Len(lastOp.files) :
          lastOp.files[i].isDayFile /\ ~lastOp.files[i].readable) =>
    entries = handleFileSelect(SelectSeq(lastOp.files, LAMBDA f : f.readable)).allEntries

ValidMarker(l) == l.marker \in {<<" ">>, <<"x">>}

\* The entries a run parsed from the given line.
FromLine(l) == {i \in 1..Len(parsed) : parsed[i].rawContent = LineText(l)}

BothOrNeither(e) == (e.startTime = Undefined) <=> (e.endTime = Undefined)

\* C5 as stated: a line with one time token yields no entry and its text is
\* attached to no entry; every parsed entry has both times or neither.
C5_LoneTimeLineSkipped ==
  (pc = "parsed" /\ lineIn # Null) =>
    /\ (ValidMarker(lineIn) /\ lineIn.times = OneTime) =>
         /\ FromLine(lineIn) = {}
         /\ \A i \in 1..Len(parsed) : \A k \in 1..Len(parsed[i].subTasks) :
              parsed[i].subTasks[k] # substring(trim(LineText(lineIn)), 2)
    /\ \A i \in 1..Len(parsed) : BothOrNeither(parsed[i])

\* C5 as amended: a line with a well-formed checkbox and one time token
\* yields one entry, untimed, whose title is the text after the checkbox
\* with the time token in it and whose link is empty, and the sub-task line
\* after it is attached to that entry; every parsed entry has both times or
\* neither.
C5_LoneTimeLineUntimed ==
  (pc = "parsed") =>
    /\ (lineIn # Null /\ ValidMarker(lineIn) /\ lineIn.times = OneTime) =>
         /\ Cardinality(FromLine(lineIn)) = 1
         /\ \A i \in FromLine(lineIn) :
              /\ parsed[i].startTime = Undefined
              /\ parsed[i].endTime = Undefined
              /\ parsed[i].title = AfterCheckbox(lineIn)
              /\ parsed[i].link = Empty
              /\ parsed[i].subTasks = IF lineIn.between THEN <<<<"s">>>> ELSE <<>>
    /\ \A i \in 1..Len(parsed) : BothOrNeither(parsed[i])

C5_Witness ==
  /\ pc = "parsed"
  /\ lineIn # Null
  /\ ValidMarker(lineIn)
  /\ lineIn.times = OneTime
  /\ lineIn.between
  /\ Len(parsed) = 2
  /\ parsed[2].title = AfterCheckbox(lineIn)

\* C6: a line whose checkbox holds anything but x or one space yields no
\* entry, whatever follows on the line; x yields completed = true and a
\* space completed = false.
C6_InvalidMarkerNoEntry ==
  (pc = "parsed" /\ lineIn # Null) =>
    IF ValidMarker(lineIn)
    THEN /\ FromLine(lineIn) # {}
         /\ \A i \in FromLine(lineIn) : parsed[i].completed = (lineIn.marker = <<"x">>)
    ELSE FromLine(lineIn) = {}

\* Whether a text has the form of a link from its first to its last
\* character, and the label and the url of such a text.
LabelEnd(t) == CHOOSE k \in 2..(Len(t) - 2) : t[k] = "]" /\ t[k + 1] = "("
                 /\ \A j \in 2..(k - 1) : ~(t[j] = "]" /\ t[j + 1] = "(")

WholeLink(t) ==
  /\ Len(t) >= 4
  /\ t[1] = "["
  /\ t[Len(t)] = ")"
  /\ \E k \in 2..(Len(t) - 2) : t[k] = "]" /\ t[k + 1] = "("

LinkLabel(t) == SubSeq(t, 2, LabelEnd(t) - 1)
LinkUrl(t) == SubSeq(t, LabelEnd(t) + 2, Len(t) - 1)

\* C7: the link of an entry line is non-empty only when the whole text after
\* the checkbox, the time range and the heading marker is a link, and then
\* title and link are its label and url; otherwise the title is that text
\* and the link is empty.
C7_TitleExtraction ==
  (pc = "parsed" /\ lineIn # Null /\ ValidMarker(lineIn) /\ lineIn.times # OneTime) =>
    \A i \in FromLine(lineIn) :
      IF WholeLink(lineIn.rest)
      THEN parsed[i].title = LinkLabel(lineIn.rest) /\ parsed[i].link = LinkUrl(lineIn.rest)
      ELSE parsed[i].title = lineIn.rest /\ parsed[i].link = Empty

\* The text of an entry as the serializers are to emit it: the times only
\* when both are present, the title as a link exactly when link is set.
Present(t) == t # Undefined /\ t # Empty

EntryText(e) ==
  <<"-", " ", "[", IF e.completed THEN "x" ELSE " ", "]", " ">>
    \o (IF Present(e.startTime) /\ Present(e.endTime)
        THEN e.startTime \o <<" ", "-", " ">> \o e.endTime \o <<" ">> ELSE Empty)
    \o (IF e.link # Empty THEN <<"[">> \o e.title \o <<"]", "(">> \o e.link \o <<")">>
        ELSE e.title)
    \o <<"\n">> \o SubTaskLines(e.subTasks)

EntriesText(dateEntries) ==
  join([i \in 1..Len(dateEntries) |-> EntryText(dateEntries[i])], <<"\n">>)

\* C8: the export text of every date and the markdown shown for the
\* selected date hold the time segment of an entry only when the entry has
\* both times, and the title as a link exactly when its link is set.
C8_TimeSegmentOnlyWhenBoth ==
  /\ \A d \in DOMAIN groupedEntries(entries) :
       SaveContent(groupedEntries(entries)[d]) = EntriesText(filterByDate(entries, d))
  /\ selectedDate # NullString =>
       getMarkdownForDate(entries, selectedDate)
         = EntriesText(filterByDate(entries, selectedDate))

\* A sequence without its n-th element (from 1).
Without(q, n) == SubSeq(q, 1, n - 1) \o SubSeq(q, n + 1, Len(q))

\* C9: an accepted reorder from index from to index to of the group of a
\* date puts the moved entry at index to of the group, keeps the order of
\* the other entries of the date, and leaves the groups of the other dates
\* as they were.
C9_ReorderStableMove ==
  [][(/\ lastOp'.kind = "drag"
      /\ lastOp'.fromDate = lastOp'.toDate
      /\ entries' # entries) =>
       LET d == lastOp'.fromDate
           old == filterByDate(entries, d)
           new == filterByDate(entries', d)
       IN /\ Len(new) = Len(old)
          /\ new[lastOp'.to + 1] = old[lastOp'.from + 1]
          /\ Without(new, lastOp'.to + 1) = Without(old, lastOp'.from + 1)
          /\ \A o \in Dates \ {d} : filterByDate(entries', o) = filterByDate(entries, o)]_vars

\* C10: a reorder request whose source and target entries are of different
\* dates leaves the entries and the dirty flag as they were.
C10_CrossDateNoOp ==
  [][(lastOp'.kind = "drag" /\ lastOp'.fromDate # lastOp'.toDate) =>
       (entries' = entries /\ hasUnsavedChanges' = hasUnsavedChanges)]_vars

C10_Witness ==
  /\ lastOp.kind = "drag"
  /\ lastOp.fromDate # lastOp.toDate
  /\ Len(filterByDate(entries, lastOp.fromDate)) > 1
  /\ Len(filterByDate(entries, lastOp.toDate)) > 1

\* C11: after any sequence of loads, edits, reorders and creations the
\* grouping of the store has exactly one key per distinct date of the
\* entries, and the group of a date holds the entries of that date, each
\* once, in the order they have in the collection.
C11_GroupsPartition ==
  LET groups == groupedEntries(entries) IN
  /\ DOMAIN groups = {entries[i].date : i \in 1..Len(entries)}
  /\ \A d \in DOMAIN groups : groups[d] = SelectSeq(entries, LAMBDA e : e.date = d)
  /\ \A i \in 1..Len(entries) :
       Cardinality({<<d, n>> \in Places(entries, "timeline") :
                      PositionOf(entries, d, n + 1) = i}) = 1

\* A store, after a creation, in which the entries of one date are apart.
C11_Witness ==
  /\ lastOp.kind = "create"
  /\ \E i, j, k \in 1..Len(entries) :
       i < j /\ j < k /\ entries[i].date = entries[k].date
         /\ entries[j].date # entries[i].date

\* The date a created entry gets: the selected date, or today when no date
\* is selected.
CreateDate(selDate, today) == IF selDate = NullString THEN today ELSE selDate

\* The group of a date, empty when the date has no entry.
GroupOf(items, d) ==
  IF d \in DOMAIN groupedEntries(items) THEN groupedEntries(items)[d] ELSE <<>>

\* C13: after a creation the group of the given date is its previous
\* entries in their order followed by one new entry with the supplied
\* fields, the given date and no sub-tasks (the group is created when the
\* date had none), and the group of every other date is as it was.
C13_CreateAppends ==
  [][lastOp'.kind = "create" =>
       LET d == CreateDate(selectedDate, lastOp'.today)
           new == GroupOf(entries', d)
           e == new[Len(new)]
       IN /\ Len(new) = Len(GroupOf(entries, d)) + 1
          /\ SubSeq(new, 1, Len(new) - 1) = GroupOf(entries, d)
          /\ e.completed = lastOp'.newEntry.completed
          /\ e.startTime = lastOp'.newEntry.startTime
          /\ e.endTime = lastOp'.newEntry.endTime
          /\ e.title = lastOp'.newEntry.title
          /\ e.link = lastOp'.newEntry.link
          /\ e.subTasks = <<>>
          /\ e.date = d
          /\ DOMAIN groupedEntries(entries') = DOMAIN groupedEntries(entries) \cup {d}
          /\ \A o \in DOMAIN groupedEntries(entries) \ {d} :
               GroupOf(entries', o) = GroupOf(entries, o)]_vars

\* A creation on the selected date of a loaded store that holds entries of
\* that date and of another date.
C13_Witness ==
  /\ lastOp.kind = "create"
  /\ loads = 1
  /\ Len(GroupOf(entries, selectedDate)) > 1
  /\ GroupOf(entries, selectedDate)[Len(GroupOf(entries, selectedDate))].title
       = lastOp.newEntry.title
  /\ Cardinality(DOMAIN groupedEntries(entries)) > 1

\* C16: a reorder request within one date always resolves the dragged entry
\* and the drop target to the two entries shown at the two indices, also
\* when entries of the date share a start time or are untimed, and moves
\* the dragged entry to the index of the target, the other entries of the
\* date keeping their order and the other dates their groups.
C16_ReorderMovesDraggedEntry ==
  [][(/\ lastOp'.kind = "drag"
      /\ lastOp'.fromDate = lastOp'.toDate
      /\ lastOp'.from # lastOp'.to) =>
       LET d == lastOp'.fromDate
           old == filterByDate(entries, d)
           new == filterByDate(entries', d)
       IN /\ findIndex(entries, sortableId(old[lastOp'.from + 1])) + 1
               = PositionOf(entries, d, lastOp'.from + 1)
          /\ findIndex(entries, sortableId(old[lastOp'.to + 1])) + 1
               = PositionOf(entries, d, lastOp'.to + 1)
          /\ new[lastOp'.to + 1] = old[lastOp'.from + 1]
          /\ Without(new, lastOp'.to + 1) = Without(old, lastOp'.from + 1)
          /\ \A o \in Dates \ {d} : filterByDate(entries', o) = filterByDate(entries, o)]_vars

\* The lines of the text a run parses, and the kinds of line of the
\* convention: a line that starts an entry, a line that starts with a dash
\* and starts no entry, a line that holds a checkbox (for which the parser
\* yields an entry), a line of the entry grammar.
TextLinesOf(text) == split(text)

EntryStart(l) == startsWith(trim(l), <<"-", " ", "[">>)

DashLine(l) == startsWith(trim(l), <<"-">>) /\ ~EntryStart(l)

CheckboxPrefixes ==
  {<<"-", " ", "[", "x", "]", " ">>, <<"-", " ", "[", " ", "]", " ">>}

HasCheckbox(l) == \E p \in 1..(Len(l) - 5) : SubSeq(l, p, p + 5) \in CheckboxPrefixes

Yields(l) == EntryStart(l) /\ HasCheckbox(l)

GrammarLine(l) == \E c \in CheckboxPrefixes : startsWith(trimStart(l), c)

\* The k-th (from 1) smallest and the largest element of a set of indices.
KthOf(S, k) == CHOOSE i \in S : Cardinality({j \in S : j <= i}) = k

MaxOf(S) == CHOOSE i \in S : \A j \in S : j <= i

\* The index of the first line after line i that starts an entry, or the
\* index after the last line.
BlockEnd(lines, i) ==
  LET later == {j \in (i + 1)..Len(lines) : EntryStart(lines[j])}
  IN IF later = {} THEN Len(lines) + 1 ELSE KthOf(later, 1)

\* The sub-tasks of the entry of line i: the dash lines up to the next line
\* that starts an entry, each trimmed and without its first two characters.
SubTasksAfter(lines, i) ==
  LET blk == SelectSeq(SubSeq(lines, i + 1, BlockEnd(lines, i) - 1), DashLine)
  IN [n \in 1..Len(blk) |-> SubSeq(trim(blk[n]), 3, Len(trim(blk[n])))]

\* C12: the parser yields one entry per line it takes as an entry, and the
\* sub-tasks of that entry are the lines that, trimmed, start with a dash
\* and are no entry line, from the line of the entry up to the next entry
\* line or the end of the text, each trimmed and without its first two
\* characters, in the order of the text; blank and commentary lines in
\* between neither add a sub-task nor close the entry.
C12_SubTaskAttachment ==
  (pc = "parsed") =>
    LET lines == TextLinesOf(content)
        Y == {i \in 1..Len(lines) : Yields(lines[i])}
    IN /\ Len(parsed) = Cardinality(Y)
       /\ \A k \in 1..Len(parsed) : parsed[k].subTasks = SubTasksAfter(lines, KthOf(Y, k))

\* A text of one entry with two sub-task lines and a blank or commentary
\* line between them.
C12_Witness ==
  /\ pc = "parsed"
  /\ Len(parsed) = 1
  /\ Len(parsed[1].subTasks) = 2
  /\ parsed[1].subTasks[1] # parsed[1].subTasks[2]
  /\ LET lines == TextLinesOf(content)
     IN \E i, j, k \in 1..Len(lines) :
          /\ i < j /\ j < k
          /\ DashLine(lines[i]) /\ DashLine(lines[k])
          /\ ~DashLine(lines[j]) /\ ~EntryStart(lines[j])

\* C14: the result of the parser holds exactly one entry per line of the
\* entry grammar (a line that, indentation aside, starts with a checkbox of
\* x or one space), never Null, with every field set, in the order of the
\* lines.
C14_TotalBestEffort ==
  (pc = "parsed") =>
    LET lines == TextLinesOf(content)
        G == {i \in 1..Len(lines) : GrammarLine(lines[i])}
    IN /\ Len(parsed) = Cardinality(G)
       /\ \A k \in 1..Len(parsed) :
            /\ parsed[k] # Null
            /\ DOMAIN parsed[k] = {"completed", "startTime", "endTime", "title", "link",
                                   "subTasks", "date", "isEditing", "rawContent"}
            /\ parsed[k].rawContent = lines[KthOf(G, k)]

\* A link from the first to the last character of a text whose url holds no
\* closing parenthesis.
SimpleLink(t) ==
  /\ WholeLink(t)
  /\ \A j \in (LabelEnd(t) + 2)..(Len(t) - 1) : t[j] # ")"

\* The title text of a line: the text after the checkbox with its one time
\* token when the line has no time range, else the text after the time
\* range and the heading marker (white space after the marker aside).
TitleText(l) ==
  IF l.times = OneTime THEN AfterCheckbox(l)
  ELSE IF l.heading # Empty THEN trimStart(l.rest)
  ELSE l.rest

\* C15: a line with a checkbox of x or a space yields one entry with
\* completed exactly for x; with the two time tokens of its time range, and
\* without times when it has no time range; with the label and the url of
\* its title text as title and link when that text is a link, and else with
\* the title text as title and an empty link; the heading marker before the
\* title text is in neither.
C15_GrammarCoverage ==
  (pc = "parsed" /\ lineIn # Null /\ ValidMarker(lineIn)) =>
    /\ Cardinality(FromLine(lineIn)) = 1
    /\ \A i \in FromLine(lineIn) :
         /\ parsed[i].completed = (lineIn.marker = <<"x">>)
         /\ parsed[i].startTime = IF lineIn.times = TimeRange THEN Time09 ELSE Undefined
         /\ parsed[i].endTime = IF lineIn.times = TimeRange THEN Time10 ELSE Undefined
         /\ IF SimpleLink(TitleText(lineIn))
            THEN /\ parsed[i].title = LinkLabel(TitleText(lineIn))
                 /\ parsed[i].link = LinkUrl(TitleText(lineIn))
            ELSE WholeLink(TitleText(lineIn))
                   \/ (parsed[i].title = TitleText(lineIn) /\ parsed[i].link = Empty)

\* The dash lines no entry is open at: no line before them starts an entry,
\* or the parser yields no entry for the last line before them that starts
\* one.
Orphan(lines, i) ==
  /\ DashLine(lines[i])
  /\ LET before == {j \in 1..(i - 1) : EntryStart(lines[j])}
     IN before = {} \/ ~HasCheckbox(lines[MaxOf(before)])

RECURSIVE SubTaskCount(_)
SubTaskCount(items) ==
  IF items = <<>> THEN 0 ELSE Len(Head(items).subTasks) + SubTaskCount(Tail(items))

\* C17: a dash line before the first entry line, or after an entry line the
\* parser yields no entry for and before the next entry line, is attached
\* to no entry: the entries hold as many sub-tasks as the text has other
\* dash lines, and the text without such a line parses to the same entries.
C17_OrphanSubTasksDiscarded ==
  (pc = "parsed") =>
    LET lines == TextLinesOf(content)
        O == {i \in 1..Len(lines) : Orphan(lines, i)}
    IN /\ SubTaskCount(parsed)
            = Cardinality({i \in 1..Len(lines) : DashLine(lines[i])} \ O)
       /\ \A i \in O : ParseFile(join(Without(lines, i), <<"\n">>), ParseDate) = parsed

\* A text with a dash line before its first entry and a dash line after an
\* entry line without checkbox that follows an entry.
C17_Witness ==
  /\ pc = "parsed"
  /\ Len(parsed) = 1
  /\ parsed[1].subTasks = <<>>
  /\ LET lines == TextLinesOf(content)
     IN \E h, a, b, i \in 1..Len(lines) :
          /\ h < a /\ a < b /\ b < i
          /\ Orphan(lines, h)
          /\ Yields(lines[a])
          /\ EntryStart(lines[b]) /\ ~HasCheckbox(lines[b])
          /\ Orphan(lines, i)

\* C18: the text exported from the entries parsed from an exported text is
\* that exported text.
C18_ExportNormalForm == (Len(exported) = 2) => (exported[2] = exported[1])

====
